---- MODULE Spec2Model ----
(***************************************************************************)
(* A model of trading_bot_demo.py: calculate_indicators, generate_signals, *)
(* simulate_trading and the part of main that drives them.                 *)
(*                                                                         *)
(* Numbers are exact rationals <<n, d>> (d > 0, lowest terms).  pandas'    *)
(* missing value NaN is <<0, 0>>, a positive number divided by zero (inf)  *)
(* is <<1, 0>>.  A rolling standard deviation is kept as its square (the   *)
(* variance), and a Bollinger band as the pair <<mid, sq>> that stands for *)
(* mid +/- sqrt(sq), so that every comparison the code makes is decided    *)
(* exactly.                                                                *)
(***************************************************************************)
EXTENDS Integers, Naturals, Sequences, FiniteSets, TLC

\* ------------------------------------------------------------------ bounds
\* longest price series main is run on
MaxBars == 4
\* longest prepared table simulate_trading is called on directly
MaxRows == 3

\* ------------------------------------------------------- exact arithmetic
Abs(n) == IF n < 0 THEN -n ELSE n

RECURSIVE GCD(_, _)
GCD(a, b) == IF b = 0 THEN a ELSE GCD(b, a % b)

Norm(n, d) ==
    LET g == GCD(Abs(n), d) IN <<n \div g, d \div g>>

Rat(n) == <<n, 1>>
Zero == <<0, 1>>
One == <<1, 1>>

RNeg(a) == <<-a[1], a[2]>>
RAdd(a, b) ==
    IF a[1] = 0 THEN b
    ELSE IF b[1] = 0 THEN a
    ELSE LET g == GCD(a[2], b[2])
         IN  Norm(a[1] * (b[2] \div g) + b[1] * (a[2] \div g), (a[2] \div g) * b[2])
RSub(a, b) == RAdd(a, RNeg(b))
RMul(a, b) ==
    LET g1 == GCD(Abs(a[1]), b[2])
        g2 == GCD(Abs(b[1]), a[2])
    IN  IF a[1] = 0 \/ b[1] = 0 THEN Zero
        ELSE <<(a[1] \div g1) * (b[1] \div g2), (a[2] \div g2) * (b[2] \div g1)>>
RInv(a) == IF a[1] < 0 THEN <<-a[2], -a[1]>> ELSE <<a[2], a[1]>>
RDiv(a, b) == RMul(a, RInv(b))
RLt(a, b) ==
    LET g == GCD(a[2], b[2]) IN a[1] * (b[2] \div g) < b[1] * (a[2] \div g)
RLe(a, b) ==
    LET g == GCD(a[2], b[2]) IN a[1] * (b[2] \div g) <= b[1] * (a[2] \div g)
RGe(a, b) == RLe(b, a)

\* --------------------------------------------------- float special values
NaN == <<0, 0>>
Inf == <<1, 0>>
IsNum(x) == x[2] # 0

\* x < y, x <= y as IEEE comparisons: False as soon as one side is NaN
FLt(x, y) ==
    IF x = NaN \/ y = NaN THEN FALSE
    ELSE IF x = Inf THEN FALSE
    ELSE IF y = Inf THEN TRUE
    ELSE RLt(x, y)
FLe(x, y) ==
    IF x = NaN \/ y = NaN THEN FALSE
    ELSE IF y = Inf THEN TRUE
    ELSE IF x = Inf THEN FALSE
    ELSE RLe(x, y)
FGt(x, y) == FLt(y, x)
FGe(x, y) == FLe(y, x)

\* ------------------------------------------------------------- the inputs
Prices == {90, 100, 120}
Signals == {-1, 0, 1}
Strategies == {"sma", "rsi", "bollinger", "all"}
ShortWindows == {1, 2}
LongWindows == {2, 3}
RsiPeriods == {1, 2}
BBWindows == {3}
BBStds == {1}
Overbought == {70}
Oversold == {30}
InitialCash == {10000}
FeeRates == {Zero, <<1, 10>>}
StopLosses == {<<1, 10>>}
TakeProfits == {<<1, 5>>}

\* price series of every length up to max
PriceSeries(max) == UNION {[1..n -> Prices] : n \in 0..max}

VARIABLES
    pc,             \* where the run is
    entry,          \* "main": the pipeline of main; "simulate": simulate_trading called on a prepared table
    strategy, short_window, long_window, rsi_period,
    rsi_overbought, rsi_oversold, bb_window, bb_std,
    initial_cash, fee_rate, stop_loss, take_profit,
    df,             \* the table: column name -> sequence of cells
    idx,            \* the row simulate_trading is about to process
    cash, holdings, entry_price,
    trades,         \* the trade log
    metrics,        \* what calculate_metrics returned
    call,           \* 1 on the first call of simulate_trading on the table, 2 on the second
    first           \* what the first call returned: the values and the trade log

vars == <<pc, entry, strategy, short_window, long_window, rsi_period,
          rsi_overbought, rsi_oversold, bb_window, bb_std,
          initial_cash, fee_rate, stop_loss, take_profit,
          df, idx, cash, holdings, entry_price, trades, metrics, call, first>>

settings == <<entry, strategy, short_window, long_window, rsi_period,
              rsi_overbought, rsi_oversold, bb_window, bb_std,
              initial_cash, fee_rate, stop_loss, take_profit>>

locals == <<idx, cash, holdings, entry_price, trades>>

results == <<metrics, call, first>>

NBars == Len(df["price"])
HasColumn(c) == c \in DOMAIN df
SetColumn(t, c, col) == (c :> col) @@ t

\* ---------------------------------------------------- calculate_indicators
RECURSIVE SumRange(_, _, _)
SumRange(s, lo, hi) == IF lo > hi THEN Zero ELSE RAdd(s[lo], SumRange(s, lo + 1, hi))

\* RollingMean that averages whatever part of the window exists (min_periods = 1)
RollingMean_Partial(s, window) ==
    [i \in 1..Len(s) |->
        IF i < window THEN RDiv(SumRange(s, 1, i), Rat(i))
        ELSE RDiv(SumRange(s, i - window + 1, i), Rat(window))]

\* Series.rolling(window).mean(): missing until the window is full
RollingMean(s, window) ==
    [i \in 1..Len(s) |->
        IF i < window THEN NaN
        ELSE RDiv(SumRange(s, i - window + 1, i), Rat(window))]

RECURSIVE SumSqDev(_, _, _, _)
SumSqDev(s, m, lo, hi) ==
    IF lo > hi THEN Zero
    ELSE RAdd(RMul(RSub(s[lo], m), RSub(s[lo], m)), SumSqDev(s, m, lo + 1, hi))

\* Series.rolling(window).std(), kept as its square: the sample variance
\* (ddof = 1), missing until the window is full and for a window of one
RollingStd(s, window) ==
    [i \in 1..Len(s) |->
        IF i < window \/ window < 2 THEN NaN
        ELSE LET m == RDiv(SumRange(s, i - window + 1, i), Rat(window))
             IN  RDiv(SumSqDev(s, m, i - window + 1, i), Rat(window - 1))]

\* Series.diff(): the first cell is missing
Diff(s) == [i \in 1..Len(s) |-> IF i = 1 THEN NaN ELSE RSub(s[i], s[i - 1])]

\* Series.shift(1)
Shift(s) == [i \in 1..Len(s) |-> IF i = 1 THEN NaN ELSE s[i - 1]]

\* delta.where(delta > 0, 0): a cell that fails the test (a missing one too) becomes 0
WhereGain(delta) == [i \in 1..Len(delta) |-> IF FGt(delta[i], Zero) THEN delta[i] ELSE Zero]
\* -delta.where(delta < 0, 0)
WhereLoss(delta) == [i \in 1..Len(delta) |-> IF FLt(delta[i], Zero) THEN RNeg(delta[i]) ELSE Zero]

\* gain / loss of non-negative cells: x/0 is inf, 0/0 and anything missing is NaN
FDiv(x, y) ==
    IF x = NaN \/ y = NaN THEN NaN
    ELSE IF y = Zero THEN (IF x = Zero THEN NaN ELSE Inf)
    ELSE RDiv(x, y)

\* 100 - (100 / (1 + rs))
RsiOf(rs) ==
    IF rs = NaN THEN NaN
    ELSE IF rs = Inf THEN Rat(100)
    ELSE RSub(Rat(100), RDiv(Rat(100), RAdd(One, rs)))

RsiColumn(price, period) ==
    LET delta == Diff(price)
        gain == RollingMean(WhereGain(delta), period)
        loss == RollingMean(WhereLoss(delta), period)
    IN  [i \in 1..Len(price) |-> RsiOf(FDiv(gain[i], loss[i]))]

\* BB_middle +/- bb_std * BB_std, kept as <<mid, sq>>; <<NaN, NaN>> when missing
Band(middle, k, std) ==
    [i \in 1..Len(middle) |->
        IF middle[i] = NaN \/ std[i] = NaN THEN <<NaN, NaN>>
        ELSE <<middle[i], RMul(Rat(k * k), std[i])>>]

\* x < mid - sqrt(sq), exactly
BelowBand(x, band) ==
    IF band[1] = NaN THEN FALSE
    ELSE LET gap == RSub(band[1], x)
         IN  RLt(Zero, gap) /\ RLt(band[2], RMul(gap, gap))
\* x > mid + sqrt(sq), exactly
AboveBand(x, band) ==
    IF band[1] = NaN THEN FALSE
    ELSE LET gap == RSub(x, band[1])
         IN  RLt(Zero, gap) /\ RLt(band[2], RMul(gap, gap))

WithIndicators(t, sw, lw, period, bw, k) ==
    LET price == t["price"]
        mid == RollingMean(price, bw)
        std == RollingStd(price, bw)
    IN  SetColumn(SetColumn(SetColumn(SetColumn(SetColumn(SetColumn(SetColumn(t,
            "SMA_short", RollingMean(price, sw)),
            "SMA_long", RollingMean(price, lw)),
            "RSI", RsiColumn(price, period)),
            "BB_middle", mid),
            "BB_std", std),
            "BB_upper", Band(mid, k, std)),
            "BB_lower", Band(mid, k, std))

\* -------------------------------------------------------- generate_signals
\* SmaSignal that looks at the current bar only (level-triggered)
SmaSignal_Level(t, i) ==
    IF FLt(t["SMA_short"][i], t["SMA_long"][i]) THEN -1
    ELSE IF FGt(t["SMA_short"][i], t["SMA_long"][i]) THEN 1
    ELSE 0

SmaSignal(t, i) ==
    LET s == t["SMA_short"]
        l == t["SMA_long"]
    IN  IF FLt(s[i], l[i]) /\ FGe(Shift(s)[i], Shift(l)[i]) THEN -1
        ELSE IF FGt(s[i], l[i]) /\ FLe(Shift(s)[i], Shift(l)[i]) THEN 1
        ELSE 0

RsiSignal(t, i, overbought, oversold) ==
    IF FGt(t["RSI"][i], Rat(overbought)) THEN -1
    ELSE IF FLt(t["RSI"][i], Rat(oversold)) THEN 1
    ELSE 0

BollingerSignal(t, i) ==
    IF AboveBand(t["price"][i], t["BB_upper"][i]) THEN -1
    ELSE IF BelowBand(t["price"][i], t["BB_lower"][i]) THEN 1
    ELSE 0

\* SignalColumn that runs the sma rule for a strategy it does not know
SignalColumn_ElseSma(t, strat, overbought, oversold) ==
    [i \in 1..Len(t["price"]) |->
        IF strat = "rsi" THEN RsiSignal(t, i, overbought, oversold)
        ELSE IF strat = "bollinger" THEN BollingerSignal(t, i)
        ELSE SmaSignal(t, i)]

SignalColumn(t, strat, overbought, oversold) ==
    [i \in 1..Len(t["price"]) |->
        IF strat = "sma" THEN SmaSignal(t, i)
        ELSE IF strat = "rsi" THEN RsiSignal(t, i, overbought, oversold)
        ELSE IF strat = "bollinger" THEN BollingerSignal(t, i)
        ELSE 0]

\* -------------------------------------------------------- simulate_trading
\* PortfolioValue that counts the cash only
PortfolioValue_CashOnly(c, h, p) == c

\* cash + holdings * row["price"]
PortfolioValue(c, h, p) == RAdd(c, RMul(h, p))

\* BuyHoldings that charges no fee on entry
BuyHoldings_NoFee(c, p, fee) == RDiv(c, p)

\* cash / row["price"] * (1 - fee_rate)
BuyHoldings(c, p, fee) == RMul(RDiv(c, p), RSub(One, fee))

\* ExitCash that forgets the price
ExitCash_NoPrice(h, p, fee) == RMul(h, RSub(One, fee))

\* holdings * row["price"] * (1 - fee_rate)
ExitCash(h, p, fee) == RMul(RMul(h, p), RSub(One, fee))

\* (row["price"] - entry_price) / entry_price
PriceChange(p, ep) == RDiv(RSub(p, ep), ep)

\* BarEvent with the forced exits tested before the Sell signal
BarEvent_ForcedFirst(sig, c, h, ep, p, sl, tp) ==
    IF sig = 1 /\ RLt(Zero, c) THEN "Buy"
    ELSE IF RLt(Zero, h) /\ RLe(PriceChange(p, ep), RNeg(sl)) THEN "StopLoss"
    ELSE IF RLt(Zero, h) /\ RGe(PriceChange(p, ep), tp) THEN "TakeProfit"
    ELSE IF sig = -1 /\ RLt(Zero, h) THEN "Sell"
    ELSE "None"

\* BarEvent with a strict stop-loss test
BarEvent_StrictStop(sig, c, h, ep, p, sl, tp) ==
    IF sig = 1 /\ RLt(Zero, c) THEN "Buy"
    ELSE IF sig = -1 /\ RLt(Zero, h) THEN "Sell"
    ELSE IF RLt(Zero, h) THEN
        IF RLt(PriceChange(p, ep), RNeg(sl)) THEN "StopLoss"
        ELSE IF RGe(PriceChange(p, ep), tp) THEN "TakeProfit"
        ELSE "None"
    ELSE "None"

\* BarEvent that buys on every Buy signal, without the cash > 0 test
BarEvent_Pyramids(sig, c, h, ep, p, sl, tp) ==
    IF sig = 1 THEN "Buy"
    ELSE IF sig = -1 /\ RLt(Zero, h) THEN "Sell"
    ELSE IF RLt(Zero, h) THEN
        IF RLe(PriceChange(p, ep), RNeg(sl)) THEN "StopLoss"
        ELSE IF RGe(PriceChange(p, ep), tp) THEN "TakeProfit"
        ELSE "None"
    ELSE "None"

\* BarEvent that sells on every Sell signal, without the holdings > 0 test
BarEvent_ShortSells(sig, c, h, ep, p, sl, tp) ==
    IF sig = 1 /\ RLt(Zero, c) THEN "Buy"
    ELSE IF sig = -1 THEN "Sell"
    ELSE IF RLt(Zero, h) THEN
        IF RLe(PriceChange(p, ep), RNeg(sl)) THEN "StopLoss"
        ELSE IF RGe(PriceChange(p, ep), tp) THEN "TakeProfit"
        ELSE "None"
    ELSE "None"

\* which branch of the if / elif chain the row takes
BarEvent(sig, c, h, ep, p, sl, tp) ==
    IF sig = 1 /\ RLt(Zero, c) THEN "Buy"
    ELSE IF sig = -1 /\ RLt(Zero, h) THEN "Sell"
    ELSE IF RLt(Zero, h) THEN
        IF RLe(PriceChange(p, ep), RNeg(sl)) THEN "StopLoss"
        ELSE IF RGe(PriceChange(p, ep), tp) THEN "TakeProfit"
        ELSE "None"
    ELSE "None"

Exits == {"Sell", "StopLoss", "TakeProfit"}

\* Position whose Buy leaves the cash where it was
Position_KeepsCash(ev, c, h, ep, p, fee) ==
    IF ev = "Buy" THEN <<c, RMul(RDiv(c, p), RSub(One, fee)), p>>
    ELSE IF ev \in {"Sell", "StopLoss", "TakeProfit"} THEN <<RMul(RMul(h, p), RSub(One, fee)), Zero, ep>>
    ELSE <<c, h, ep>>

\* Position whose exits credit the cash but leave the holdings in place
Position_ExitKeepsHoldings(ev, c, h, ep, p, fee) ==
    IF ev = "Buy" THEN <<Zero, RMul(RDiv(c, p), RSub(One, fee)), p>>
    ELSE IF ev \in {"Sell", "StopLoss", "TakeProfit"} THEN <<RMul(RMul(h, p), RSub(One, fee)), h, ep>>
    ELSE <<c, h, ep>>

\* the position a branch leaves: <<cash, holdings, entry_price>>
Position(ev, c, h, ep, p, fee) ==
    IF ev = "Buy" THEN <<Zero, BuyHoldings(c, p, fee), p>>
    ELSE IF ev \in Exits THEN <<ExitCash(h, p, fee), Zero, ep>>
    ELSE <<c, h, ep>>

\* the dict appended to trades
TradeRecord(i, ev, p, h, c, pv) ==
    [date |-> i, type |-> ev, price |-> p, holdings |-> h, cash |-> c, portfolio_value |-> pv]

\* WriteValue that adds to a value the cell already holds
WriteValue_Accumulates(t, i, pv) ==
    IF "portfolio_value" \in DOMAIN t
    THEN SetColumn(t, "portfolio_value",
            [t["portfolio_value"] EXCEPT ![i] = IF IsNum(@) THEN RAdd(@, pv) ELSE pv])
    ELSE SetColumn(t, "portfolio_value", [j \in 1..Len(t["price"]) |-> IF j = i THEN pv ELSE NaN])

\* df.loc[index, "portfolio_value"] = portfolio_value: the first write makes
\* the column, missing in every other row
WriteValue(t, i, pv) ==
    LET col == IF "portfolio_value" \in DOMAIN t THEN t["portfolio_value"]
               ELSE [j \in 1..Len(t["price"]) |-> NaN]
    IN  SetColumn(t, "portfolio_value", [col EXCEPT ![i] = pv])

\* ------------------------------------------------------- calculate_metrics
RMax(a, b) == IF RLe(a, b) THEN b ELSE a

\* CumMaxAt that takes the peak of the whole series, later bars included
CumMaxAt_Global(v, i) ==
    CHOOSE m \in {v[j] : j \in 1..Len(v)} : \A j \in 1..Len(v) : RLe(v[j], m)

\* Series.cummax() at row i
RECURSIVE CumMaxAt(_, _)
CumMaxAt(v, i) == IF i = 1 THEN v[1] ELSE RMax(CumMaxAt(v, i - 1), v[i])

\* (cummax - value) / cummax
Drawdown(v) ==
    [i \in 1..Len(v) |-> RDiv(RSub(CumMaxAt(v, i), v[i]), CumMaxAt(v, i))]

\* Series.max(): NaN for an empty series
RECURSIVE MaxUpTo(_, _)
MaxUpTo(s, i) == IF i = 1 THEN s[1] ELSE RMax(MaxUpTo(s, i - 1), s[i])
SeriesMax(s) == IF Len(s) = 0 THEN NaN ELSE MaxUpTo(s, Len(s))

\* Series.pct_change().dropna(): the first row has no change and is dropped
Returns(v) ==
    IF Len(v) < 2 THEN <<>>
    ELSE [i \in 1..(Len(v) - 1) |-> RSub(RDiv(v[i + 1], v[i]), One)]

\* Series.mean(): NaN for an empty series
SeriesMean(s) == IF Len(s) = 0 THEN NaN ELSE RDiv(SumRange(s, 1, Len(s)), Rat(Len(s)))

Scale(x, k) == IF x = NaN THEN NaN ELSE RMul(x, Rat(k))

NoMetrics == <<>>
NoResult == <<>>

\* annualized_return and max_drawdown as returned; the volatility and the
\* Sharpe ratio are square roots and quotients of square roots of these
\* rationals and are left out of the record
MetricsOf(v) ==
    [annualized_return |-> Scale(Scale(SeriesMean(Returns(v)), 252), 100),
     max_drawdown |-> Scale(SeriesMax(Drawdown(v)), 100)]

\* ------------------------------------------------------------------- Init
\* the scenarios of the specification's section 8, run as written
ScenarioRuns ==
    { [price |-> <<100, 110>>, fee |-> <<1, 1000>>] }
    \cup { [price |-> <<100, 105, 110, 90, 95>>, fee |-> f] : f \in FeeRates }

Cells(series) == [i \in 1..Len(series) |-> Rat(series[i])]

InitLocals ==
    /\ idx = 0
    /\ cash = Zero
    /\ holdings = Zero
    /\ entry_price = Zero
    /\ trades = <<>>
    /\ metrics = NoMetrics
    /\ call = 1
    /\ first = NoResult

InitMain ==
    /\ entry = "main"
    /\ pc = "main"
    /\ strategy \in Strategies
    /\ short_window \in ShortWindows
    /\ long_window \in LongWindows
    /\ rsi_period \in RsiPeriods
    /\ rsi_overbought \in Overbought
    /\ rsi_oversold \in Oversold
    /\ bb_window \in BBWindows
    /\ bb_std \in BBStds
    /\ initial_cash \in InitialCash
    /\ fee_rate \in FeeRates
    /\ stop_loss \in StopLosses
    /\ take_profit \in TakeProfits
    /\ \E series \in PriceSeries(MaxBars) : df = [c \in {"price"} |-> Cells(series)]
    /\ InitLocals

Defaults ==
    /\ strategy = "sma"
    /\ short_window = 20
    /\ long_window = 50
    /\ rsi_period = 14
    /\ rsi_overbought = 70
    /\ rsi_oversold = 30
    /\ bb_window = 20
    /\ bb_std = 2

Table(series, sigs) ==
    [c \in {"price", "Signal"} |-> IF c = "price" THEN Cells(series) ELSE sigs]

\* the keyword arguments of a direct call: the ranges of main's inputs, their
\* lower ends (stop_loss = take_profit = 0), and a fee below zero, which
\* nothing in simulate_trading refuses
SimulateCalls ==
    { [fee_rate |-> f, stop_loss |-> sl, take_profit |-> tp] :
        f \in FeeRates, sl \in StopLosses, tp \in TakeProfits }
    \cup { [fee_rate |-> <<1, 10>>, stop_loss |-> Zero, take_profit |-> Zero],
           [fee_rate |-> <<-1, 10>>, stop_loss |-> <<1, 10>>, take_profit |-> <<1, 5>>] }

\* simulate_trading handed a table that already has its Signal column
InitSimulate ==
    /\ entry = "simulate"
    /\ pc = "simulate_trading"
    /\ Defaults
    /\ initial_cash \in InitialCash
    /\ \/ /\ \E args \in SimulateCalls :
                /\ fee_rate = args.fee_rate
                /\ stop_loss = args.stop_loss
                /\ take_profit = args.take_profit
          /\ \E series \in PriceSeries(MaxRows) : \E sigs \in [1..Len(series) -> Signals] :
                df = Table(series, sigs)
       \/ /\ stop_loss \in StopLosses
          /\ take_profit \in TakeProfits
          /\ \E run \in ScenarioRuns : \E sigs \in [1..Len(run.price) -> Signals] :
                /\ fee_rate = run.fee
                /\ df = Table(run.price, sigs)
    /\ InitLocals

Init == InitMain \/ InitSimulate

\* ------------------------------------------------------------------- main
\* the two checks of main before any data is read
Validate ==
    /\ pc = "main"
    /\ pc' = IF long_window <= short_window \/ rsi_overbought <= rsi_oversold
             THEN "rejected" ELSE "calculate_indicators"
    /\ UNCHANGED <<settings, df, locals, results>>

CalculateIndicators ==
    /\ pc = "calculate_indicators"
    /\ df' = WithIndicators(df, short_window, long_window, rsi_period, bb_window, bb_std)
    /\ pc' = "generate_signals"
    /\ UNCHANGED <<settings, locals, results>>

GenerateSignals ==
    /\ pc = "generate_signals"
    /\ df' = SetColumn(df, "Signal", SignalColumn(df, strategy, rsi_overbought, rsi_oversold))
    /\ pc' = "simulate_trading"
    /\ UNCHANGED <<settings, locals, results>>

\* cash = initial_cash; holdings = 0; trades = []; entry_price = 0
SimulateBegin ==
    /\ pc = "simulate_trading"
    /\ cash' = Rat(initial_cash)
    /\ holdings' = Zero
    /\ trades' = <<>>
    /\ entry_price' = Zero
    /\ idx' = 1
    /\ pc' = "loop"
    /\ UNCHANGED <<settings, df, results>>

\* SimulateBar whose second branch is an `if`, not an `elif`: the row that
\* bought is tested again for an exit
SimulateBar_Reenters ==
    /\ pc = "loop"
    /\ idx <= NBars
    /\ LET p == df["price"][idx]
           pv == PortfolioValue(cash, holdings, p)
           ev == BarEvent(df["Signal"][idx], cash, holdings, entry_price, p, stop_loss, take_profit)
           pos == Position(ev, cash, holdings, entry_price, p, fee_rate)
           ev2 == IF ev = "Buy"
                  THEN BarEvent(df["Signal"][idx], pos[1], pos[2], pos[3], p, stop_loss, take_profit)
                  ELSE "None"
           pos2 == Position(ev2, pos[1], pos[2], pos[3], p, fee_rate)
           log == IF ev = "None" THEN trades
                  ELSE Append(trades, TradeRecord(idx, ev, p, pos[2], pos[1], pv))
       IN  /\ cash' = pos2[1]
           /\ holdings' = pos2[2]
           /\ entry_price' = pos2[3]
           /\ trades' = IF ev2 = "None" THEN log
                        ELSE Append(log, TradeRecord(idx, ev2, p, pos2[2], pos2[1], pv))
           /\ df' = WriteValue(df, idx, pv)
    /\ idx' = idx + 1
    /\ UNCHANGED <<pc, settings, results>>

\* one pass of the loop body over row idx
SimulateBar ==
    /\ pc = "loop"
    /\ idx <= NBars
    /\ LET p == df["price"][idx]
           pv == PortfolioValue(cash, holdings, p)
           ev == BarEvent(df["Signal"][idx], cash, holdings, entry_price, p, stop_loss, take_profit)
           pos == Position(ev, cash, holdings, entry_price, p, fee_rate)
       IN  /\ cash' = pos[1]
           /\ holdings' = pos[2]
           /\ entry_price' = pos[3]
           /\ trades' = IF ev = "None" THEN trades
                        ELSE Append(trades, TradeRecord(idx, ev, p, pos[2], pos[1], pv))
           /\ df' = WriteValue(df, idx, pv)
    /\ idx' = idx + 1
    /\ UNCHANGED <<pc, settings, results>>

\* return df, pd.DataFrame(trades)
SimulateReturn ==
    /\ pc = "loop"
    /\ idx > NBars
    /\ pc' = "returned"
    /\ UNCHANGED <<settings, df, locals, results>>

\* df["portfolio_value"] raises KeyError when no row ever wrote the column
CalculateMetrics ==
    /\ pc = "returned"
    /\ IF "portfolio_value" \in DOMAIN df
       THEN /\ metrics' = MetricsOf(df["portfolio_value"])
            /\ pc' = "done"
       ELSE /\ metrics' = metrics
            /\ pc' = "KeyError"
    /\ UNCHANGED <<settings, df, locals, call, first>>

\* what a call handed back: the portfolio_value column of the returned table
\* (none when no row wrote it) and the trade log
Returned(t, log) ==
    [values |-> IF "portfolio_value" \in DOMAIN t THEN t["portfolio_value"] ELSE <<>>,
     trades |-> log]

\* the caller calls simulate_trading once more on the table it got back
SimulateAgain ==
    /\ pc = "returned"
    /\ entry = "simulate"
    /\ call = 1
    /\ first' = Returned(df, trades)
    /\ call' = 2
    /\ pc' = "simulate_trading"
    /\ UNCHANGED <<settings, df, locals, metrics>>

Next ==
    \/ Validate
    \/ CalculateIndicators
    \/ GenerateSignals
    \/ SimulateBegin
    \/ SimulateBar
    \/ SimulateReturn
    \/ CalculateMetrics
    \/ SimulateAgain

Spec == Init /\ [][Next]_vars

\* ============================================================ properties
\* the row the loop is about to process, and the position it finds
AtBar == pc = "loop" /\ idx <= NBars
BarPrice == df["price"][idx]
BarSignal == df["Signal"][idx]
Long == RLt(Zero, holdings)
Flat == holdings = Zero
StopMet == Long /\ RLe(RDiv(RSub(BarPrice, entry_price), entry_price), RNeg(stop_loss))
ProfitMet == Long /\ RLe(take_profit, RDiv(RSub(BarPrice, entry_price), entry_price))

\* this step appends exactly one record, of the given type, for the current row
Appends(type) ==
    /\ Len(trades') = Len(trades) + 1
    /\ SubSeq(trades', 1, Len(trades)) = trades
    /\ trades'[Len(trades')].type = type
    /\ trades'[Len(trades')].date = idx
AppendsNothing == trades' = trades

\* the last record of the log belongs to the row just processed
JustTraded(type) ==
    /\ pc = "loop"
    /\ trades # <<>>
    /\ trades[Len(trades)].type = type
    /\ trades[Len(trades)].date = idx - 1

\* C1 as stated: forced exits come before the signal-driven exit: a LONG bar
\* whose price change meets the stop-loss (take-profit) threshold appends a
\* StopLoss (TakeProfit) record even when its signal is Sell, and a Sell
\* record is appended only on LONG bars with a Sell signal and no threshold met.
C1_ForcedExitFirst ==
    [][AtBar =>
        /\ (StopMet => Appends("StopLoss"))
        /\ (ProfitMet /\ ~StopMet => Appends("TakeProfit"))
        /\ (Appends("Sell") => Long /\ BarSignal = -1 /\ ~StopMet /\ ~ProfitMet)]_vars

\* C1 amended: the Sell signal comes before the forced exits: a LONG bar with
\* a Sell signal appends a Sell record whatever the price change; StopLoss
\* (stop-loss met) and TakeProfit (take-profit met, stop-loss not) records are
\* appended exactly on the LONG bars whose signal is not Sell.
C1_SellBeforeForcedExit ==
    [][AtBar =>
        /\ (Appends("Sell") <=> Long /\ BarSignal = -1)
        /\ (Appends("StopLoss") <=> BarSignal # -1 /\ StopMet)
        /\ (Appends("TakeProfit") <=> BarSignal # -1 /\ ProfitMet /\ ~StopMet)]_vars

\* a Sell record written on a bar whose price change had met the stop-loss threshold
C1_Witness ==
    /\ JustTraded("Sell")
    /\ RLe(RDiv(RSub(trades[Len(trades)].price, entry_price), entry_price), RNeg(stop_loss))

\* C2: after every bar cash >= 0, holdings >= 0 and the two are never both
\* positive.
C2_FullyInvestedOrFlat ==
    pc \in {"loop", "returned"} =>
        /\ RLe(Zero, cash)
        /\ RLe(Zero, holdings)
        /\ ~(RLt(Zero, cash) /\ RLt(Zero, holdings))

\* a position re-entered after a round trip: invested, no cash
C2_Witness ==
    /\ JustTraded("Buy")
    /\ Len(trades) = 3
    /\ RLt(Zero, holdings)
    /\ cash = Zero

\* C3: a LONG bar whose price change is <= -stop_loss (equality included) is
\* liquidated on that bar at that bar's price, whatever the signal:
\* holdings 0, cash = holdings * price * (1 - fee_rate).
C3_StopLossLiquidates ==
    [][AtBar /\ StopMet =>
        /\ holdings' = Zero
        /\ cash' = RMul(RMul(holdings, BarPrice), RSub(One, fee_rate))
        /\ Len(trades') = Len(trades) + 1]_vars

\* entry 100, stop_loss 0.1, price 90, on a bar that carries a Buy signal:
\* the position is closed exactly at the threshold
C3_Witness ==
    /\ JustTraded("StopLoss")
    /\ entry_price = Rat(100)
    /\ trades[Len(trades)].price = Rat(90)
    /\ df["Signal"][idx - 1] = 1
    /\ holdings = Zero
    /\ RLt(Zero, cash)

\* C4: no pyramiding: a Buy signal on a LONG bar with neither threshold met
\* leaves cash, holdings and entry_price unchanged and appends no record.
C4_NoPyramiding ==
    [][AtBar /\ Long /\ BarSignal = 1 /\ ~StopMet /\ ~ProfitMet =>
        /\ cash' = cash
        /\ holdings' = holdings
        /\ entry_price' = entry_price
        /\ AppendsNothing]_vars

\* a LONG position that has just passed a bar with a Buy signal and a price
\* change inside both thresholds
C4_Witness ==
    /\ pc = "loop"
    /\ idx > 2
    /\ Long
    /\ df["Signal"][idx - 1] = 1
    /\ trades[Len(trades)].date < idx - 1
    /\ df["price"][idx - 1] # entry_price
    /\ RLt(RNeg(stop_loss), RDiv(RSub(df["price"][idx - 1], entry_price), entry_price))
    /\ RLt(RDiv(RSub(df["price"][idx - 1], entry_price), entry_price), take_profit)

\* C5: a Sell or Hold signal on a FLAT bar changes neither cash nor holdings
\* (no short sale: holdings stay 0) and appends no record.
C5_FlatIgnoresSell ==
    [][AtBar /\ Flat /\ BarSignal \in {-1, 0} =>
        /\ cash' = cash
        /\ holdings' = Zero
        /\ AppendsNothing]_vars

\* a FLAT position that has just passed a bar with a Sell signal
C5_Witness ==
    /\ pc = "loop"
    /\ idx > 1
    /\ Flat
    /\ df["Signal"][idx - 1] = -1
    /\ (trades = <<>> \/ trades[Len(trades)].date < idx - 1)

\* the value written for the current row, in the table and in the row's record if any
Records(value) ==
    /\ "portfolio_value" \in DOMAIN df'
    /\ df'["portfolio_value"][idx] = value
    /\ (trades' # trades => trades'[Len(trades')].portfolio_value = value)
EveryBarValued ==
    pc = "returned" /\ NBars > 0 =>
        /\ "portfolio_value" \in DOMAIN df
        /\ \A i \in 1..NBars : IsNum(df["portfolio_value"][i])

\* C6 as stated: every bar gets a portfolio value, and the value recorded for
\* a bar is cash + holdings * price of the position that results from the
\* bar's transition.
C6_ValueOfResultingPosition ==
    [][/\ AtBar => Records(RAdd(cash', RMul(holdings', BarPrice)))
       /\ EveryBarValued']_vars

\* C6 amended: every bar gets a portfolio value, and the value recorded for a
\* bar (in the table and in the bar's trade record) is cash + holdings * price
\* of the position the bar starts with, before its transition.
C6_ValueOfStartingPosition ==
    [][/\ AtBar => Records(RAdd(cash, RMul(holdings, BarPrice)))
       /\ EveryBarValued']_vars

\* a finished run with a fee: every row is valued, and some record's value
\* is not the value of the position the record shows
C6_Witness ==
    /\ pc = "returned"
    /\ NBars >= 2
    /\ \A i \in 1..NBars : IsNum(df["portfolio_value"][i])
    /\ \E k \in 1..Len(trades) :
          trades[k].portfolio_value # RAdd(trades[k].cash, RMul(trades[k].holdings, trades[k].price))

\* C7: with fee_rate = 0 a Buy or a Sell leaves cash + holdings * price, at
\* the bar's price, as it was.
C7_NoFeeConservesValue ==
    [][AtBar /\ fee_rate = Zero /\ (Appends("Buy") \/ Appends("Sell")) =>
        RAdd(cash', RMul(holdings', BarPrice)) = RAdd(cash, RMul(holdings, BarPrice))]_vars

\* a fee-free round trip: bought, then sold on a Sell signal at another price
C7_Witness ==
    /\ fee_rate = Zero
    /\ JustTraded("Sell")
    /\ trades[Len(trades)].price # entry_price
    /\ cash # Rat(initial_cash)

\* the cash a record starts from
CashBefore(k) == IF k = 1 THEN Rat(initial_cash) ELSE trades[k - 1].cash
Keep == RSub(One, fee_rate)

FeesOnBothLegs ==
    pc \in {"loop", "returned"} =>
        /\ \A k \in 1..Len(trades) :
              LET r == trades[k] IN
              /\ r.type = "Buy" =>
                    /\ r.holdings = RDiv(RMul(CashBefore(k), Keep), r.price)
                    /\ r.cash = Zero
              /\ r.type \in {"Sell", "StopLoss", "TakeProfit"} =>
                    /\ k > 1
                    /\ r.cash = RMul(RMul(trades[k - 1].holdings, r.price), Keep)
                    /\ r.holdings = Zero
                    /\ trades[k - 1].type = "Buy" =>
                          r.cash = RMul(RMul(CashBefore(k - 1), RMul(Keep, Keep)),
                                        RDiv(r.price, trades[k - 1].price))
        /\ trades # <<>> =>
              /\ cash = trades[Len(trades)].cash
              /\ holdings = trades[Len(trades)].holdings

\* initial 10000, fee 0.001, bought at 100 and sold at 110
FeeScenario ==
    /\ pc \in {"loop", "returned"}
    /\ initial_cash = 10000
    /\ fee_rate = <<1, 1000>>
    /\ Len(trades) = 2
    /\ trades[1].price = Rat(100)
    /\ trades[2].price = Rat(110)

\* C8 as stated: fees multiply on both legs (holdings = cash * (1 - fee) / price
\* on a Buy, cash = holdings * price * (1 - fee) on every exit, so a round trip
\* leaves initial_cash * (1 - fee)^2 * p2 / p1), and the example ends with
\* holdings 99.9 and cash 10978.9 to one decimal.
C8_FeesAsStated ==
    /\ FeesOnBothLegs
    /\ FeeScenario =>
          /\ trades[1].holdings = <<999, 10>>
          /\ RLe(<<1097885, 100>>, cash) /\ RLt(cash, <<1097895, 100>>)

\* C8 amended: the same formulas; the example ends with holdings 99.9 and
\* cash 10978.011.
C8_FeesOnBothLegs ==
    /\ FeesOnBothLegs
    /\ FeeScenario =>
          /\ trades[1].holdings = <<999, 10>>
          /\ cash = <<10978011, 1000>>

\* the example's round trip has been run
C8_Witness ==
    /\ FeeScenario
    /\ trades[1].type = "Buy"
    /\ trades[2].type = "Sell"
    /\ holdings = Zero

\* main has filled the Signal column
Signalled == entry = "main" /\ "Signal" \in DOMAIN df
Short(i) == df["SMA_short"][i]
LongSma(i) == df["SMA_long"][i]
BothSmas(i) == i >= 1 /\ IsNum(Short(i)) /\ IsNum(LongSma(i))
ShortAbove(i) == BothSmas(i) /\ RLt(LongSma(i), Short(i))
ShortBelow(i) == BothSmas(i) /\ RLt(Short(i), LongSma(i))

\* bars a..b are a maximal run of bars with short_sma > long_sma
RunAbove(a, b) ==
    /\ a <= b
    /\ \A j \in a..b : ShortAbove(j)
    /\ (a = 1 \/ ~ShortAbove(a - 1))
    /\ (b = NBars \/ ~ShortAbove(b + 1))

EdgeTriggered ==
    \A i \in 1..NBars :
        /\ df["Signal"][i] = 1 <=>
              ShortAbove(i) /\ BothSmas(i - 1) /\ RLe(Short(i - 1), LongSma(i - 1))
        /\ df["Signal"][i] = -1 <=>
              ShortBelow(i) /\ BothSmas(i - 1) /\ RLe(LongSma(i - 1), Short(i - 1))

\* C9 as stated: in SMA-crossover mode Buy is emitted at bar i iff
\* short_sma[i] > long_sma[i] and short_sma[i-1] <= long_sma[i-1] (Sell
\* symmetrically), so every run of bars with short_sma > long_sma emits
\* exactly one Buy, at its first bar, and Hold on its other bars.
C9_OneBuyPerRun ==
    Signalled /\ strategy = "sma" =>
        /\ EdgeTriggered
        /\ \A a \in 1..NBars : \A b \in a..NBars :
              RunAbove(a, b) =>
                  /\ df["Signal"][a] = 1
                  /\ \A j \in (a + 1)..b : df["Signal"][j] = 0

\* C9 amended: the same equivalence, a missing SMA making a comparison false;
\* a run of bars with short_sma > long_sma emits Hold on all but its first
\* bar, and on its first bar a Buy exactly when both SMAs are available on
\* the bar before the run (a run that starts on the first bar where the long
\* SMA is available emits no Buy at all).
C9_AtMostOneBuyPerRun ==
    Signalled /\ strategy = "sma" =>
        /\ EdgeTriggered
        /\ \A a \in 1..NBars : \A b \in a..NBars :
              RunAbove(a, b) =>
                  /\ df["Signal"][a] = (IF BothSmas(a - 1) THEN 1 ELSE 0)
                  /\ \A j \in (a + 1)..b : df["Signal"][j] = 0

\* a run of two bars or more that starts after the warm-up: one Buy, at its first bar
C9_Witness ==
    /\ Signalled
    /\ strategy = "sma"
    /\ \E a \in 2..NBars : \E b \in (a + 1)..NBars :
          /\ RunAbove(a, b)
          /\ BothSmas(a - 1)
          /\ df["Signal"][a] = 1
          /\ df["Signal"][b] = 0

\* an input of bar i that the mode reads is missing: the window of the mode's
\* indicator is not yet full (for "sma" on bar i or on the bar before it), or
\* the indicator cell itself is NaN
Unavailable(i) ==
    IF strategy = "sma" THEN
        \/ i < long_window \/ i < short_window
        \/ i - 1 < long_window \/ i - 1 < short_window
        \/ ~BothSmas(i) \/ ~BothSmas(i - 1)
    ELSE IF strategy = "rsi" THEN
        i < rsi_period \/ ~IsNum(df["RSI"][i])
    ELSE IF strategy = "bollinger" THEN
        \/ i < bb_window
        \/ ~IsNum(df["BB_upper"][i][1]) \/ ~IsNum(df["BB_lower"][i][1])
    ELSE FALSE

\* C10: in every strategy mode a bar with an unavailable indicator input has
\* the signal Hold.
C10_WarmUpHolds ==
    Signalled => \A i \in 1..NBars : Unavailable(i) => df["Signal"][i] = 0

\* a signalled table whose warm-up bars hold and on which a later bar does not
C10_Witness ==
    /\ Signalled
    /\ strategy = "bollinger"
    /\ \E i \in 1..NBars : Unavailable(i) /\ df["Signal"][i] = 0
    /\ \E i \in 1..NBars : df["Signal"][i] # 0

\* main has filled the indicator columns
Computed == entry = "main" /\ "RSI" \in DOMAIN df

\* the trailing rsi_period deltas of bar i exist and none of them is a loss
NoLossWindow(i) ==
    /\ i > rsi_period
    /\ \A j \in (i - rsi_period + 1)..i : RLe(df["price"][j - 1], df["price"][j])

\* C11: at every bar past warm-up whose average loss over the trailing
\* rsi_period deltas is 0 the RSI is 100, also when the average gain is 0
\* (a constant price series has RSI = 100 at every such bar).
C11_RsiHundredWithoutLoss ==
    Computed => \A i \in 1..NBars : NoLossWindow(i) => df["RSI"][i] = Rat(100)

\* a configuration the specification refuses
InvalidConfig ==
    \/ long_window <= short_window
    \/ rsi_overbought <= rsi_oversold
    \/ RLt(fee_rate, Zero)
    \/ RLt(stop_loss, Zero)
    \/ RLt(take_profit, Zero)

\* nothing has been computed: no indicator, no signal, no simulation step
NothingRun ==
    /\ pc \in {"main", "rejected", "simulate_trading"}
    /\ trades = <<>>
    /\ "portfolio_value" \notin DOMAIN df
    /\ entry = "main" => DOMAIN df = {"price"}

\* C12: with long_window <= short_window, overbought <= oversold or a
\* negative fee_rate, stop_loss or take_profit, the run ends in an error
\* before any indicator, signal or simulation step: no trade record and no
\* portfolio value is ever produced.
C12_FailsFast == InvalidConfig => NothingRun

\* the portfolio values calculate_metrics was given
Values == df["portfolio_value"]
\* the greatest value of bars 1..i, no later bar looked at
PeakAt(i) == CHOOSE m \in {Values[j] : j \in 1..i} : \A j \in 1..i : RLe(Values[j], m)
DrawdownAt(i) == RDiv(RSub(PeakAt(i), Values[i]), PeakAt(i))
GreatestDrawdown ==
    CHOOSE d \in {DrawdownAt(i) : i \in 1..NBars} : \A i \in 1..NBars : RLe(DrawdownAt(i), d)
NonDecreasing == \A i \in 2..NBars : RLe(Values[i - 1], Values[i])
\* the values rise to bar k and decline from it
PeakThenDecline(k) ==
    /\ \A i \in 2..k : RLe(Values[i - 1], Values[i])
    /\ \A i \in (k + 1)..NBars : RLe(Values[i], Values[i - 1])

\* the drawdown figures of the claim, each times the given factor
DrawdownIs(factor) ==
    pc = "done" =>
        /\ metrics.max_drawdown = RMul(Rat(factor), GreatestDrawdown)
        /\ NonDecreasing => metrics.max_drawdown = Zero
        /\ \A k \in 1..NBars :
              PeakThenDecline(k) =>
                  metrics.max_drawdown =
                      RMul(Rat(factor), RDiv(RSub(Values[k], Values[NBars]), Values[k]))

\* C13 as stated: max_drawdown is the maximum over bars i of
\* (running_peak[i] - value[i]) / running_peak[i], the running peak being the
\* maximum of bars 0..i only; 0 for a non-decreasing series and
\* (peak - trough) / peak for a series that rises to one peak and declines.
C13_DrawdownFraction == DrawdownIs(1)

\* C13 amended: max_drawdown is that maximum as a percentage: 100 times the
\* maximum over bars i of (running_peak[i] - value[i]) / running_peak[i]; 0
\* for a non-decreasing series and 100 * (peak - trough) / peak for a series
\* that rises to one peak and declines.
C13_DrawdownPercent == DrawdownIs(100)

\* three values that rise to a peak at the second bar and fall below the
\* first: the drawdown is measured from the peak
C13_Witness ==
    /\ pc = "done"
    /\ NBars = 3
    /\ RLt(Values[1], Values[2])
    /\ RLt(Values[3], Values[1])
    /\ metrics.max_drawdown = RMul(Rat(100), RDiv(RSub(Values[2], Values[3]), Values[2]))

Finished == pc \in {"returned", "done", "KeyError"}
Closings == {k \in 1..Len(trades) : trades[k].type \in {"Sell", "StopLoss", "TakeProfit"}}

\* C14: degenerate inputs have defined outcomes: on an empty price series
\* simulate returns no portfolio value and an empty trade log, on a
\* single-bar series it returns no closed trade, and simulate followed by
\* calculate_metrics on an empty series does not end in an unhandled failure.
C14_DegenerateInputsDefined ==
    /\ Finished /\ NBars = 0 =>
          /\ trades = <<>>
          /\ "portfolio_value" \in DOMAIN df => df["portfolio_value"] = <<>>
    /\ Finished /\ NBars = 1 => Closings = {}
    /\ NBars = 0 => pc # "KeyError"

\* the step leaves every column but c as it was and adds no other column
OnlyColumn(c) ==
    /\ DOMAIN df' \subseteq DOMAIN df \cup {c}
    /\ \A k \in DOMAIN df \ {c} : k \in DOMAIN df' /\ df'[k] = df[k]
SecondCallReturns == pc' = "returned" /\ call' = 2
SameAsFirst == first = Returned(df, trades)

Opening(k) == trades[k].type = "Buy"
Closing(k) == trades[k].type \in {"Sell", "StopLoss", "TakeProfit"}

\* C16: the trade log alternates: its first record is a Buy, a Buy is
\* followed by a closing record, a closing record by a Buy; so the closing
\* records number floor(length / 2) and the Buys at most one more.
C16_LogAlternates ==
    /\ \A k \in 1..Len(trades) :
          /\ k % 2 = 1 => Opening(k)
          /\ k % 2 = 0 => Closing(k)
    /\ Cardinality(Closings) = Len(trades) \div 2
    /\ Len(trades) - Cardinality(Closings) \in {Cardinality(Closings), Cardinality(Closings) + 1}

\* a log of two round trips, closed once by a forced exit and once by a Sell signal
C16_Witness ==
    /\ Len(trades) = 4
    /\ \E k \in {2, 4} : trades[k].type = "Sell"
    /\ \E k \in {2, 4} : trades[k].type \in {"StopLoss", "TakeProfit"}

\* C17: a bar appends at most one trade record: the bar that buys records no
\* exit (also with stop_loss = 0 or take_profit = 0, where the price change
\* of 0 on the entry bar already meets a threshold) and is LONG after it; the
\* bar that exits records no re-entry and is FLAT after it.
C17_OneRecordPerBar ==
    [][AtBar =>
        /\ Len(trades') <= Len(trades) + 1
        /\ \A j \in 1..Len(trades') : \A k \in 1..Len(trades') :
              j < k => trades'[j].date < trades'[k].date
        /\ Appends("Buy") => RLt(Zero, holdings') /\ cash' = Zero
        /\ (\E type \in {"Sell", "StopLoss", "TakeProfit"} : Appends(type)) =>
              holdings' = Zero /\ RLt(Zero, cash')]_vars

\* with stop_loss = take_profit = 0: the bar has bought, its price change of 0
\* meets both thresholds, and the position is still open
C17_Witness ==
    /\ stop_loss = Zero
    /\ take_profit = Zero
    /\ JustTraded("Buy")
    /\ trades[Len(trades)].price = entry_price
    /\ Long

\* C18: with a strategy other than "sma", "rsi" and "bollinger" (the "all" of
\* the selectbox) generate_signals leaves every signal at Hold; simulate_trading
\* then stays FLAT with its cash untouched, logs no trade, and records
\* initial_cash as the portfolio value of every bar it has passed.
OtherStrategy == entry = "main" /\ strategy \notin {"sma", "rsi", "bollinger"}
C18_UnknownStrategyHolds ==
    OtherStrategy =>
        /\ "Signal" \in DOMAIN df => \A i \in 1..NBars : df["Signal"][i] = 0
        /\ pc \in {"loop", "returned", "done", "KeyError"} =>
              /\ Flat
              /\ cash = Rat(initial_cash)
              /\ trades = <<>>
              /\ \A i \in 1..(idx - 1) : df["portfolio_value"][i] = Rat(initial_cash)

\* the whole run under "all" is over, on prices that rose and fell
C18_Witness ==
    /\ OtherStrategy
    /\ pc = "done"
    /\ NBars >= 3
    /\ \E i \in 1..NBars : \E j \in 1..NBars :
          i < j /\ RLt(df["price"][i], df["price"][j])
    /\ \E i \in 1..NBars : \E j \in 1..NBars :
          i < j /\ RLt(df["price"][j], df["price"][i])
    /\ \A i \in 1..NBars : df["portfolio_value"][i] = Rat(initial_cash)

====
